---- MODULE Spec2Model ----
(***************************************************************************)
(* Tick-to-OHLC conversion (examples/tick_to_ohlc.py): the class           *)
(* TickToOHLCConverter with its window arithmetic, batch aggregation and   *)
(* the verifier that compares generated candles with a reference series.   *)
(*                                                                         *)
(* Representation of the values the program handles:                       *)
(*   - a timestamp string "2025-09-DDTHH:MM:SS[.ffffff]" as produced by    *)
(*     isoformat() is the tuple <<day, hour, minute, second, micro>>; the  *)
(*     fractional part is omitted by isoformat() when it is zero, so       *)
(*     micro = 0 stands for the shorter string without ".ffffff";          *)
(*   - a datetime is a record [day, hour, minute, second, microsecond];    *)
(*   - a candle date string "...THH:MM:SS+05:30" is <<day, hour, minute,   *)
(*     second>>;                                                           *)
(*   - a float is an IEEE-754 binary64 value (see the Float section);      *)
(*   - a tick is a record of the fields its JSON line has;                 *)
(*   - None and "nothing returned" are the empty tuple.                    *)
(***************************************************************************)
EXTENDS Integers, Sequences, FiniteSets, TLC

VARIABLES
    interval,       \* self.interval
    ticks,          \* self.ticks
    ohlc_candles,   \* self.ohlc_candles
    input,          \* every record read from the tick files so far, in file order
    last_call,      \* the method that ran last
    args,           \* the arguments of that call, a record by parameter name
    ret,            \* what that call returned / reported, a record, <<>> if nothing
    raised          \* the exception that call ended with, "none" if it returned

vars == <<interval, ticks, ohlc_candles, input, last_call, args, ret, raised>>

----------------------------------------------------------------------------
(* Bounds *)

MaxTicks == 3       \* records held by one converter
MaxHist == 2        \* candles of a reference series

----------------------------------------------------------------------------
(* Generic helpers *)

Min2(a, b) == IF a <= b THEN a ELSE b

Abs(x) == IF x < 0 THEN -x ELSE x

\* Python tuple / string comparison of two equally long tuples of numbers
RECURSIVE LexLess(_, _)
LexLess(a, b) ==
    IF a = <<>> \/ b = <<>> THEN FALSE
    ELSE IF Head(a) # Head(b) THEN Head(a) < Head(b)
    ELSE LexLess(Tail(a), Tail(b))

----------------------------------------------------------------------------
(* Intervals and the window arithmetic *)

INTERVALS ==
    [minute |-> 1, 3minute |-> 3, 5minute |-> 5, 10minute |-> 10,
     15minute |-> 15, 30minute |-> 30, 60minute |-> 60, day |-> 1440]

IntervalNames == DOMAIN INTERVALS

interval_minutes == INTERVALS[interval]

\* datetime.fromisoformat on a timestamp string
fromisoformat(s) ==
    [day |-> s[1], hour |-> s[2], minute |-> s[3], second |-> s[4],
     microsecond |-> s[5]]

\* datetime.fromisoformat raises ValueError on a string whose fields are out
\* of range
IsoFormatOk(s) ==
    /\ s[2] \in 0..23
    /\ s[3] \in 0..59
    /\ s[4] \in 0..59
    /\ s[5] \in 0..999999

\* the key tuple datetime objects are ordered by
DtKey(dt) == <<dt.day, dt.hour, dt.minute, dt.second, dt.microsecond>>

DtLess(a, b) == LexLess(DtKey(a), DtKey(b))

get_window_start_roundup(iv, timestamp_str) ==
    LET dt == fromisoformat(timestamp_str)
        minutes_since_midnight == dt.hour * 60 + dt.minute
        interval_periods == (minutes_since_midnight + INTERVALS[iv] - 1) \div INTERVALS[iv]
        aligned_minutes == interval_periods * INTERVALS[iv]
    IN  [dt EXCEPT !.hour = aligned_minutes \div 60,
                   !.minute = aligned_minutes % 60,
                   !.second = 0, !.microsecond = 0]

get_window_start(iv, timestamp_str) ==
    LET dt == fromisoformat(timestamp_str)
    IN  IF iv = "day"
        THEN [dt EXCEPT !.hour = 0, !.minute = 0, !.second = 0, !.microsecond = 0]
        ELSE LET minutes_since_midnight == dt.hour * 60 + dt.minute
                 interval_periods == minutes_since_midnight \div INTERVALS[iv]
                 aligned_minutes == interval_periods * INTERVALS[iv]
                 window_hour == aligned_minutes \div 60
                 window_minute == aligned_minutes % 60
             IN  [dt EXCEPT !.hour = window_hour, !.minute = window_minute,
                            !.second = 0, !.microsecond = 0]

----------------------------------------------------------------------------
(* Construction *)

Init ==
    /\ interval \in IntervalNames
    /\ ticks = <<>>
    /\ ohlc_candles = <<>>
    /\ input = <<>>
    /\ last_call = "__init__"
    /\ args = <<>>
    /\ ret = <<>>
    /\ raised = "none"

----------------------------------------------------------------------------
(* Tick records and load_tick_data *)

Tick(ts, price, qty) ==
    [timestamp |-> ts, last_price |-> price, last_traded_quantity |-> qty]

\* the records a tick file is made of: three that share one timestamp (two
\* of them with different prices), one half a second later, one in the next
\* minute and one at midnight of the next day
TickRecords ==
    { Tick(<<22, 10, 39, 12, 0>>, 100, 100),
      Tick(<<22, 10, 39, 12, 0>>, 102, 7),
      Tick(<<22, 10, 39, 12, 0>>, 100, 1),
      Tick(<<22, 10, 39, 12, 500000>>, 101, 7),
      Tick(<<22, 10, 40, 5, 0>>, 101, 7),
      Tick(<<23, 0, 0, 0, 0>>, 99, 100) }

\* the tick files with at most n records
TickFiles(n) == UNION {[1..k -> TickRecords] : k \in 0..n}

\* x['timestamp'] < y['timestamp'] on the strings
KeyLess(x, y) == LexLess(x.timestamp, y.timestamp)

\* list.sort(key=...) is stable: an element goes after the elements whose
\* key is not greater than its own
InsertSortedUnstable(s, x) ==
    LET before == SelectSeq(s, LAMBDA e : KeyLess(e, x))
        after == SelectSeq(s, LAMBDA e : ~KeyLess(e, x))
    IN  before \o <<x>> \o after

InsertSorted(s, x) ==
    LET before == SelectSeq(s, LAMBDA e : ~KeyLess(x, e))
        after == SelectSeq(s, LAMBDA e : KeyLess(x, e))
    IN  before \o <<x>> \o after

RECURSIVE SetToSeq(_)
SetToSeq(S) ==
    IF S = {} THEN <<>>
    ELSE LET x == CHOOSE y \in S : TRUE IN <<x>> \o SetToSeq(S \ {x})

SortByTimestampNone(s) == s

RECURSIVE SortByTimestamp(_)
SortByTimestamp(s) ==
    IF s = <<>> THEN <<>>
    ELSE InsertSorted(SortByTimestamp(SubSeq(s, 1, Len(s) - 1)), s[Len(s)])

\* the records of a tick file that lack a field the converter reads, or
\* whose timestamp datetime.fromisoformat rejects (hour 25)
MalformedRecords ==
    { [last_price |-> 100, last_traded_quantity |-> 1],
      [timestamp |-> <<23, 0, 0, 0, 0>>, last_traded_quantity |-> 1],
      [timestamp |-> <<22, 10, 39, 12, 0>>, last_price |-> 100],
      Tick(<<22, 25, 0, 0, 0>>, 100, 1) }

\* the well-formed records that appear next to malformed ones
CompanionRecords ==
    { Tick(<<22, 10, 39, 12, 0>>, 100, 100),
      Tick(<<22, 10, 40, 5, 0>>, 101, 7) }

\* the tick files with at most n records, malformed or not
RawFiles(n) ==
    UNION {[1..k -> MalformedRecords \cup CompanionRecords] : k \in 0..n}

\* the body of load_tick_data on the list old_ticks: every record of the file
\* is appended as it is read, then the list is sorted by x['timestamp'];
\* the key lookup raises KeyError on a record without that field, and
\* list.sort then leaves the list as it was before the sort
LoadTicksReplacing(old_ticks, tick_file) ==
    IF \E i \in DOMAIN tick_file : "timestamp" \notin DOMAIN tick_file[i]
    THEN [raised |-> "KeyError", ticks |-> tick_file]
    ELSE [raised |-> "none", ticks |-> SortByTimestamp(tick_file)]

LoadTicks(old_ticks, tick_file) ==
    LET appended == old_ticks \o tick_file
    IN  IF \E i \in DOMAIN appended : "timestamp" \notin DOMAIN appended[i]
        THEN [raised |-> "KeyError", ticks |-> appended]
        ELSE [raised |-> "none", ticks |-> SortByTimestamp(appended)]

\* converter.load_tick_data(tick_file)
Load(tick_file) ==
    /\ \E outcome \in {LoadTicks(ticks, tick_file)} :
          /\ ticks' = outcome.ticks
          /\ raised' = outcome.raised
          /\ ret' = IF outcome.raised = "none"
                    THEN [count |-> Len(outcome.ticks)] ELSE <<>>
    /\ input' = input \o tick_file
    /\ args' = [tick_file |-> tick_file]
    /\ last_call' = "load_tick_data"
    /\ UNCHANGED <<interval, ohlc_candles>>

\* a load of a file whose records are all well-formed
load_tick_data ==
    \E tick_file \in TickFiles(MaxTicks - Len(ticks)) : Load(tick_file)

\* a load of a file whose records may be malformed
load_raw_file ==
    \E tick_file \in RawFiles(MaxTicks - Len(ticks)) : Load(tick_file)

----------------------------------------------------------------------------
(* Aggregation *)

group_ticks_by_window_set(iv, tks) ==
    [w \in {get_window_start(iv, tks[i].timestamp) : i \in DOMAIN tks} |->
        LET members == {tks[i] : i \in {k \in DOMAIN tks :
                                        get_window_start(iv, tks[k].timestamp) = w}}
        IN  SortByTimestamp(SetToSeq(members))]

\* defaultdict(list) filled in the order of self.ticks
group_ticks_by_window(iv, tks) ==
    [w \in {get_window_start(iv, tks[i].timestamp) : i \in DOMAIN tks} |->
        SelectSeq(tks, LAMBDA t : get_window_start(iv, t.timestamp) = w)]

RECURSIVE SeqMax(_)
SeqMax(s) ==
    IF Len(s) = 1 THEN s[1]
    ELSE LET m == SeqMax(Tail(s)) IN IF s[1] >= m THEN s[1] ELSE m

RECURSIVE SeqMin(_)
SeqMin(s) ==
    IF Len(s) = 1 THEN s[1]
    ELSE LET m == SeqMin(Tail(s)) IN IF s[1] <= m THEN s[1] ELSE m

RECURSIVE SeqSum(_)
SeqSum(s) == IF s = <<>> THEN 0 ELSE s[1] + SeqSum(Tail(s))

Prices(s) == [i \in DOMAIN s |-> s[i].last_price]

Quantities(s) == [i \in DOMAIN s |-> s[i].last_traded_quantity]

calculate_ohlc_for_window_swapped(ticks_in_window) ==
    LET sorted_ticks == SortByTimestamp(ticks_in_window)
    IN  [open |-> sorted_ticks[1].last_price,
         high |-> SeqMin(Prices(sorted_ticks)),
         low |-> SeqMax(Prices(sorted_ticks)),
         close |-> sorted_ticks[Len(sorted_ticks)].last_price,
         volume |-> SeqSum(Quantities(sorted_ticks))]

calculate_ohlc_for_window(ticks_in_window) ==
    LET sorted_ticks == SortByTimestamp(ticks_in_window)
    IN  [open |-> sorted_ticks[1].last_price,
         high |-> SeqMax(Prices(sorted_ticks)),
         low |-> SeqMin(Prices(sorted_ticks)),
         close |-> sorted_ticks[Len(sorted_ticks)].last_price,
         volume |-> SeqSum(Quantities(sorted_ticks))]

RECURSIVE SortedKeysDescending(_)
SortedKeysDescending(S) ==
    IF S = {} THEN <<>>
    ELSE LET first == CHOOSE w \in S : \A v \in S \ {w} : DtLess(v, w)
         IN  <<first>> \o SortedKeysDescending(S \ {first})

\* sorted(windows.keys()) on datetime objects
RECURSIVE SortedKeys(_)
SortedKeys(S) ==
    IF S = {} THEN <<>>
    ELSE LET first == CHOOSE w \in S : \A v \in S \ {w} : DtLess(w, v)
         IN  <<first>> \o SortedKeys(S \ {first})

\* window_time.strftime('%Y-%m-%dT%H:%M:%S') + '+05:30'
strftime(dt) == <<dt.day, dt.hour, dt.minute, dt.second>>

Candles(iv, tks) ==
    LET windows == group_ticks_by_window(iv, tks)
        keys == SortedKeys(DOMAIN windows)
    IN  [i \in 1..Len(keys) |->
            LET ohlc == calculate_ohlc_for_window(windows[keys[i]])
            IN  [date |-> strftime(keys[i]),
                 open |-> ohlc.open, high |-> ohlc.high, low |-> ohlc.low,
                 close |-> ohlc.close, volume |-> ohlc.volume]]

\* tick['timestamp'] exists and get_window_start can parse it
WellTimed(tick) ==
    /\ "timestamp" \in DOMAIN tick
    /\ IsoFormatOk(tick.timestamp)

\* calculate_ohlc_for_window finds every field it reads in the tick
Priced(tick) ==
    /\ "last_price" \in DOMAIN tick
    /\ "last_traded_quantity" \in DOMAIN tick

\* the body of convert_to_ohlc up to its last append: the exception it ends
\* with, if any, and the local list candles at that point.  Grouping raises
\* on the first tick whose timestamp is missing (KeyError) or unparseable
\* (ValueError); the loop over the sorted windows raises KeyError in the
\* first window that holds a tick without price or quantity.
ConvertOutcome(iv, tks) ==
    LET untimed == {i \in DOMAIN tks : ~WellTimed(tks[i])}
    IN  IF untimed # {}
        THEN LET first == CHOOSE i \in untimed : \A j \in untimed : i <= j
             IN  [raised |-> IF "timestamp" \in DOMAIN tks[first]
                             THEN "ValueError" ELSE "KeyError",
                  candles |-> <<>>]
        ELSE IF \A i \in DOMAIN tks : Priced(tks[i])
             THEN [raised |-> "none", candles |-> Candles(iv, tks)]
             ELSE LET windows == group_ticks_by_window(iv, tks)
                      keys == SortedKeys(DOMAIN windows)
                      failing == {i \in DOMAIN keys :
                                    \E j \in DOMAIN windows[keys[i]] :
                                        ~Priced(windows[keys[i]][j])}
                      first == CHOOSE i \in failing : \A j \in failing : i <= j
                      earlier(t) ==
                          DtLess(get_window_start(iv, t.timestamp), keys[first])
                  IN  [raised |-> "KeyError",
                       candles |-> Candles(iv, SelectSeq(tks, earlier))]

\* self.ohlc_candles after the call: it is assigned once, after the loop
StoredCandlesPartial(outcome, stored) == outcome.candles

StoredCandles(outcome, stored) ==
    IF outcome.raised = "none" THEN outcome.candles ELSE stored

convert_to_ohlc ==
    /\ \E outcome \in {ConvertOutcome(interval, ticks)} :
          /\ ohlc_candles' = StoredCandles(outcome, ohlc_candles)
          /\ raised' = outcome.raised
          /\ ret' = IF outcome.raised = "none"
                    THEN [candles |-> outcome.candles] ELSE <<>>
    /\ args' = <<>>
    /\ last_call' = "convert_to_ohlc"
    /\ UNCHANGED <<interval, ticks, input>>

Next == load_tick_data \/ convert_to_ohlc

Spec == Init /\ [][Next]_vars

----------------------------------------------------------------------------
(* Float: IEEE-754 binary64 arithmetic on non-negative values               *)
(*                                                                          *)
(* A non-zero float is [zero |-> FALSE, mant |-> the 53 bits of its         *)
(* significand, most significant (always 1) first, exp |-> e], with value   *)
(* (mant read as a binary integer) * 2^e.  The values that occur here are   *)
(* far from the subnormal and overflow ranges.  Long integers are handled   *)
(* in limbs of 18 bits.                                                     *)

MantBits == 53

LimbBits == 18

FloatZero == [zero |-> TRUE, mant |-> <<>>, exp |-> 0]

RECURSIVE Pow2(_)
Pow2(k) == IF k = 0 THEN 1 ELSE 2 * Pow2(k - 1)

LimbBase == Pow2(LimbBits)

\* bit k of n, bit 0 the least significant
BitOf(n, k) == (n \div Pow2(k)) % 2

\* the limbs written out in binary, most significant bit first
LimbsToBits(limbs) ==
    [i \in 1..(LimbBits * Len(limbs)) |->
        BitOf(limbs[((i - 1) \div LimbBits) + 1], (LimbBits - 1) - ((i - 1) % LimbBits))]

RECURSIVE BitsInt(_)
\* the number written by at most 9 bits
BitsInt(bits) ==
    IF bits = <<>> THEN 0
    ELSE 2 * BitsInt(SubSeq(bits, 1, Len(bits) - 1)) + bits[Len(bits)]

\* the number written by at most 18 bits
BitsToLimb(bits) ==
    LET padded == [i \in 1..(LimbBits - Len(bits)) |-> 0] \o bits
    IN  BitsInt(SubSeq(padded, 1, 9)) * Pow2(9) + BitsInt(SubSeq(padded, 10, LimbBits))

AnyOne(bits) == \E i \in DOMAIN bits : bits[i] = 1

\* bits + 1, for bits that are not all ones
Increment(bits) ==
    LET last0 == CHOOSE k \in DOMAIN bits :
                    bits[k] = 0 /\ \A i \in DOMAIN bits : i > k => bits[i] = 1
    IN  [i \in DOMAIN bits |-> IF i < last0 THEN bits[i] ELSE IF i = last0 THEN 1 ELSE 0]

\* the float nearest to bits * 2^e (plus a non-zero tail below the last
\* bit when sticky), ties to even
Round(bits, e, sticky) ==
    IF ~AnyOne(bits) THEN FloatZero
    ELSE LET first == CHOOSE k \in DOMAIN bits :
                         bits[k] = 1 /\ \A i \in DOMAIN bits : i < k => bits[i] = 0
             b == SubSeq(bits, first, Len(bits))
             n == Len(b)
         IN  IF n <= MantBits
             THEN [zero |-> FALSE, mant |-> b \o [i \in 1..(MantBits - n) |-> 0],
                   exp |-> e - (MantBits - n)]
             ELSE LET m == SubSeq(b, 1, MantBits)
                      guard == b[MantBits + 1]
                      rest == sticky \/ AnyOne(SubSeq(b, MantBits + 2, n))
                      up == guard = 1 /\ (rest \/ m[MantBits] = 1)
                      e2 == e + (n - MantBits)
                  IN  IF ~up THEN [zero |-> FALSE, mant |-> m, exp |-> e2]
                      ELSE IF \A i \in DOMAIN m : m[i] = 1
                      THEN [zero |-> FALSE,
                            mant |-> <<1>> \o [i \in 1..(MantBits - 1) |-> 0],
                            exp |-> e2 + 1]
                      ELSE [zero |-> FALSE, mant |-> Increment(m), exp |-> e2]

RECURSIVE ShiftUntil(_, _)
\* the least i with x * 2^i >= y
ShiftUntil(x, y) == IF x >= y THEN 0 ELSE 1 + ShiftUntil(2 * x, y)

\* a / b on ints (true division), 0 <= a < 2^12, 0 < b < 2^12: scale to
\* n / d in [1, 2), take 55 quotient bits by long division, round
TrueDiv(a, b) ==
    IF a = 0 THEN FloatZero
    ELSE LET i == ShiftUntil(a, b)
             j == IF i > 0 THEN 0 ELSE ShiftUntil(b, a + 1) - 1
             n == a * Pow2(i)
             d == b * Pow2(j)
             r0 == n - d
             q1 == (r0 * LimbBase) \div d
             r1 == (r0 * LimbBase) % d
             q2 == (r1 * LimbBase) \div d
             r2 == (r1 * LimbBase) % d
             q3 == (r2 * LimbBase) \div d
             r3 == (r2 * LimbBase) % d
         IN  Round(<<1>> \o LimbsToBits(<<q1, q2, q3>>), j - i - 3 * LimbBits, r3 # 0)

\* x * n for a float x and an int n, 0 <= n < 2^12
FloatMulInt(x, n) ==
    IF x.zero \/ n = 0 THEN FloatZero
    ELSE LET padded == <<0>> \o x.mant
             l1 == BitsToLimb(SubSeq(padded, 1, LimbBits))
             l2 == BitsToLimb(SubSeq(padded, LimbBits + 1, 2 * LimbBits))
             l3 == BitsToLimb(SubSeq(padded, 2 * LimbBits + 1, 3 * LimbBits))
             t3 == l3 * n
             t2 == l2 * n + (t3 \div LimbBase)
             t1 == l1 * n + (t2 \div LimbBase)
         IN  Round(LimbsToBits(<<t1 \div LimbBase, t1 % LimbBase,
                                 t2 % LimbBase, t3 % LimbBase>>), x.exp, FALSE)

\* x <= n for a float x >= 0 and an int n, 0 <= n < 2^18
FloatLeqInt(x, n) ==
    IF x.zero THEN TRUE
    ELSE LET intlen == MantBits + x.exp
         IN  IF intlen > LimbBits THEN FALSE
             ELSE IF intlen <= 0 THEN n >= 1
             ELSE LET ipart == BitsToLimb(SubSeq(x.mant, 1, intlen))
                      frac == AnyOne(SubSeq(x.mant, intlen + 1, MantBits))
                  IN  ipart < n \/ (ipart = n /\ ~frac)

----------------------------------------------------------------------------
(* Verification against a reference series *)

\* --tolerance values: whole percentages
Tolerances == {1, 7}

Candle(date, o, h, l, c, v) ==
    [date |-> date, open |-> o, high |-> h, low |-> l, close |-> c, volume |-> v]

\* the candles a reference file for this interval is made of: dated at the
\* window of the 10:39 ticks, of the 10:40 tick or at the next midnight
ReferenceCandles ==
    LET d1 == strftime(get_window_start(interval, <<22, 10, 39, 12, 0>>))
        d2 == strftime(get_window_start(interval, <<22, 10, 40, 5, 0>>))
        d3 == <<23, 0, 0, 0>>
    IN  { Candle(d1, 100, 100, 100, 100, 100),
          Candle(d1, 100, 102, 100, 102, 100),
          Candle(d1, 100, 102, 100, 102, 0),
          Candle(d1, 99, 99, 99, 99, 100),
          Candle(d2, 101, 101, 101, 101, 7),
          Candle(d3, 99, 99, 99, 99, 100) }

\* historical_data['data'] of the reference files: at most MaxHist candles,
\* dates strictly increasing
ReferenceSeries ==
    {h \in UNION {[1..k -> ReferenceCandles] : k \in 0..MaxHist} :
        \A i, j \in DOMAIN h : i < j => LexLess(h[i].date, h[j].date)}

\* abs(hist - gen) / hist * 100 if hist > 0 else 0
volume_diff_pct(hist_volume, gen_volume) ==
    IF hist_volume > 0
    THEN FloatMulInt(TrueDiv(Abs(hist_volume - gen_volume), hist_volume), 100)
    ELSE FloatZero

volume_match(hist_volume, gen_volume, tolerance_pct) ==
    FloatLeqInt(volume_diff_pct(hist_volume, gen_volume), tolerance_pct)

\* volume_match tabulated over the volumes that can meet: a reference
\* volume, a sum of at most MaxTicks quantities, a tolerance
VolumeMatchTable ==
    [hv \in {0, 7, 100}, gv \in 0..(100 * MaxTicks), tol \in Tolerances |->
        volume_match(hv, gv, tol)]

ohlc_match(hist, gen) ==
    /\ hist.open = gen.open
    /\ hist.high = gen.high
    /\ hist.low = gen.low
    /\ hist.close = gen.close

\* one iteration of the comparison loop for the pair at index i (from 0)
ComparePair(i, hist, gen, tolerance_pct) ==
    IF hist.date # gen.date
    THEN [match |-> FALSE,
          entry |-> [index |-> i,
                     details |-> << <<"Timestamp mismatch", hist.date, gen.date>> >>]]
    ELSE LET om == ohlc_match(hist, gen)
             vm == VolumeMatchTable[hist.volume, gen.volume, tolerance_pct]
         IN  [match |-> om /\ vm,
              entry |-> [index |-> i,
                         date |-> hist.date,
                         details |->
                            (IF om THEN <<>>
                             ELSE << <<"OHLC", <<hist.open, hist.high, hist.low, hist.close>>,
                                       <<gen.open, gen.high, gen.low, gen.close>> >> >>)
                            \o
                            (IF vm THEN <<>>
                             ELSE << <<"Volume", hist.volume, gen.volume>> >>)]]

zip_same_length(historical_candles, generated_candles) ==
    IF Len(historical_candles) # Len(generated_candles) THEN <<>>
    ELSE [i \in 1..Len(historical_candles) |->
            <<historical_candles[i], generated_candles[i]>>]

\* zip(historical_candles, generated_candles)
zip(historical_candles, generated_candles) ==
    [i \in 1..Min2(Len(historical_candles), Len(generated_candles)) |->
        <<historical_candles[i], generated_candles[i]>>]

\* the comparison loop and the report; the match rate divides by the number
\* of compared candles
Verification(historical_candles, generated_candles, tolerance_pct) ==
    LET pairs == zip(historical_candles, generated_candles)
        outcomes == [i \in DOMAIN pairs |->
                        ComparePair(i - 1, pairs[i][1], pairs[i][2], tolerance_pct)]
        failed == SelectSeq(outcomes, LAMBDA o : ~o.match)
        mismatches == [k \in DOMAIN failed |-> failed[k].entry]
        matches == Cardinality({i \in DOMAIN outcomes : outcomes[i].match})
        total == Min2(Len(historical_candles), Len(generated_candles))
    IN  IF total = 0
        THEN [raised |-> "ZeroDivisionError", total_compared |-> total,
              matches |-> matches, mismatches |-> mismatches]
        ELSE [raised |-> "none", total_compared |-> total,
              matches |-> matches, mismatches |-> mismatches,
              verdict |-> (matches = total)]

\* called the way main calls it: on the candles convert_to_ohlc just made
verify_against_historical ==
    /\ last_call = "convert_to_ohlc"
    /\ \E historical_candles \in ReferenceSeries, tolerance_pct \in Tolerances :
          /\ args' = [historical_candles |-> historical_candles,
                      tolerance_pct |-> tolerance_pct]
          /\ \E report \in {Verification(historical_candles, ohlc_candles,
                                         tolerance_pct)} :
                /\ ret' = report
                /\ raised' = report.raised
    /\ last_call' = "verify_against_historical"
    /\ UNCHANGED <<interval, ticks, ohlc_candles, input>>

\* the converters main is run with here
VerifyIntervals == {"minute", "15minute", "day"}

InitVerify == Init /\ interval \in VerifyIntervals

NextVerify == load_tick_data \/ convert_to_ohlc \/ verify_against_historical

SpecVerify == InitVerify /\ [][NextVerify]_vars

----------------------------------------------------------------------------
(* The window indexer on its own: get_window_start applied to timestamps    *)
(* over the whole day, for every interval.                                  *)

WindowTimestamps ==
    {<<d, h, m, s, u>> : d \in {22, 23}, h \in {0, 10, 23},
                         m \in {0, 29, 30, 39, 40, 59}, s \in {0, 12, 59},
                         u \in {0, 500000, 999999}}

CallGetWindowStart ==
    /\ \E t \in WindowTimestamps :
          /\ args' = [timestamp_str |-> t]
          /\ ret' = get_window_start(interval, t)
    /\ raised' = "none"
    /\ last_call' = "get_window_start"
    /\ UNCHANGED <<interval, ticks, ohlc_candles, input>>

NextWindow == CallGetWindowStart

SpecWindow == Init /\ [][NextWindow]_vars

\* seconds since midnight of a datetime
SecOfDay(dt) == (dt.hour * 60 + dt.minute) * 60 + dt.second

IntervalSeconds == interval_minutes * 60

\* C1: the window start of t is on t's calendar day, has no seconds or
\* sub-seconds, is a whole multiple of the interval after midnight, is the
\* greatest such instant <= t, and t < window_start + interval.
WindowStartIsGreatestBoundary ==
    last_call = "get_window_start" =>
        LET t == fromisoformat(args.timestamp_str)
            ws == ret
        IN  /\ ws.day = t.day
            /\ ws.second = 0 /\ ws.microsecond = 0
            /\ SecOfDay(ws) % IntervalSeconds = 0
            /\ SecOfDay(ws) <= SecOfDay(t)
            /\ SecOfDay(t) < SecOfDay(ws) + IntervalSeconds
            /\ \A k \in 0..1440 :
                  k * IntervalSeconds <= SecOfDay(t) => k * IntervalSeconds <= SecOfDay(ws)
            /\ (SecOfDay(t) % IntervalSeconds = 0 /\ t.microsecond = 0) => ws = t

\* a timestamp exactly on a 30-minute boundary, and one in the last
\* microsecond before midnight, have been mapped
WindowStartWitness ==
    /\ last_call = "get_window_start"
    /\ interval = "30minute"
    /\ args.timestamp_str = <<22, 10, 30, 0, 0>>
    /\ ret = fromisoformat(args.timestamp_str)

----------------------------------------------------------------------------
(* Properties of the candle series *)

DateSecOfDay(date) == (date[2] * 60 + date[3]) * 60 + date[4]

\* the tick's instant lies in the half-open window [date, date + interval)
Covers(candle, tick) ==
    LET dt == fromisoformat(tick.timestamp)
    IN  /\ candle.date[1] = dt.day
        /\ DateSecOfDay(candle.date) <= SecOfDay(dt)
        /\ SecOfDay(dt) < DateSecOfDay(candle.date) + IntervalSeconds

CandleSet == {ohlc_candles[j] : j \in DOMAIN ohlc_candles}

\* C2: after convert_to_ohlc every tick lies in the window of exactly one
\* candle, every candle's window holds a tick, candle dates are window
\* boundaries and strictly increase, and with the daily interval there is
\* one candle per calendar day, dated that day's midnight.
OneCandlePerNonEmptyWindow ==
    last_call = "convert_to_ohlc" =>
        /\ \A i \in DOMAIN ticks :
              Cardinality({j \in DOMAIN ohlc_candles : Covers(ohlc_candles[j], ticks[i])}) = 1
        /\ \A j \in DOMAIN ohlc_candles :
              /\ \E i \in DOMAIN ticks : Covers(ohlc_candles[j], ticks[i])
              /\ DateSecOfDay(ohlc_candles[j].date) % IntervalSeconds = 0
        /\ \A j, k \in DOMAIN ohlc_candles :
              j < k => LexLess(ohlc_candles[j].date, ohlc_candles[k].date)
        /\ interval = "day" =>
              /\ \A j \in DOMAIN ohlc_candles :
                    ohlc_candles[j].date = <<ohlc_candles[j].date[1], 0, 0, 0>>
              /\ Len(ohlc_candles) =
                    Cardinality({ticks[i].timestamp[1] : i \in DOMAIN ticks})

\* three ticks of two calendar days, at different times of day, have been
\* converted with the daily interval into two candles
DailyCollapseWitness ==
    /\ last_call = "convert_to_ohlc"
    /\ interval = "day"
    /\ Len(ticks) = 3
    /\ Cardinality({ticks[i].timestamp : i \in DOMAIN ticks}) = 3
    /\ Len(ohlc_candles) = 2
    /\ ohlc_candles[1].date = <<22, 0, 0, 0>>

Volumes(cs) == [j \in DOMAIN cs |-> cs[j].volume]

\* C3: a candle's volume is the sum of last_traded_quantity over exactly the
\* loaded records that lie in its window, duplicates included, and the
\* candle volumes add up to the total quantity of all loaded records.
VolumeIsExactSum ==
    last_call = "convert_to_ohlc" =>
        /\ \A j \in DOMAIN ohlc_candles :
              ohlc_candles[j].volume =
                 SeqSum(Quantities(SelectSeq(input, LAMBDA t : Covers(ohlc_candles[j], t))))
        /\ SeqSum(Volumes(ohlc_candles)) = SeqSum(Quantities(input))

\* the same record was loaded twice and counted twice
DuplicateTicksWitness ==
    /\ last_call = "convert_to_ohlc"
    /\ Len(input) = 2
    /\ input[1] = input[2]
    /\ Len(ohlc_candles) = 1
    /\ ohlc_candles[1].volume = 2 * input[1].last_traded_quantity

InstantOf(tick) == fromisoformat(tick.timestamp)

SetMin(S) == CHOOSE x \in S : \A y \in S : x <= y

SetMax(S) == CHOOSE x \in S : \A y \in S : x >= y

\* positions in the input of the records in the candle's window
InWindow(candle) == {i \in DOMAIN input : Covers(candle, input[i])}

Earliest(candle) ==
    {i \in InWindow(candle) :
        \A k \in InWindow(candle) : ~DtLess(InstantOf(input[k]), InstantOf(input[i]))}

Latest(candle) ==
    {i \in InWindow(candle) :
        \A k \in InWindow(candle) : ~DtLess(InstantOf(input[i]), InstantOf(input[k]))}

\* C4: open is the price of the earliest tick of the window and close the
\* price of the latest; among ticks with the same timestamp the first in
\* input order gives open and the last in input order gives close.
OpenCloseFollowInputOrder ==
    last_call = "convert_to_ohlc" =>
        \A j \in DOMAIN ohlc_candles :
            /\ ohlc_candles[j].open = input[SetMin(Earliest(ohlc_candles[j]))].last_price
            /\ ohlc_candles[j].close = input[SetMax(Latest(ohlc_candles[j]))].last_price

\* two ticks with one timestamp and different prices arrived in two files,
\* the dearer one first, after a later tick of the same window
TieBreakWitness ==
    /\ last_call = "convert_to_ohlc"
    /\ Len(input) = 3
    /\ input[1].timestamp = <<22, 10, 39, 12, 500000>>
    /\ input[2].timestamp = input[3].timestamp
    /\ input[2].last_price = 102 /\ input[3].last_price = 100
    /\ Len(ohlc_candles) = 1
    /\ ohlc_candles[1].open = 102 /\ ohlc_candles[1].close = 101

Reordered(s) == {[i \in DOMAIN s |-> s[f[i]]] : f \in Permutations(DOMAIN s)}

WithoutOpenClose(cs) ==
    [j \in DOMAIN cs |-> [date |-> cs[j].date, high |-> cs[j].high,
                          low |-> cs[j].low, volume |-> cs[j].volume]]

SameTimestampSamePrice ==
    \A i, k \in DOMAIN input :
        input[i].timestamp = input[k].timestamp => input[i].last_price = input[k].last_price

\* C5 as stated: whatever order the same ticks are presented in, the candle
\* series is identical.
AnyInputOrderSameCandles ==
    last_call = "convert_to_ohlc" =>
        \A p \in Reordered(input) :
            Candles(interval, SortByTimestamp(p)) = ohlc_candles

\* C5 amended: in every input order the series has the same window starts,
\* highs, lows and volumes; open and close are the same too when ticks that
\* share a timestamp share their price.
AnyInputOrderSameCandlesUpToTies ==
    last_call = "convert_to_ohlc" =>
        \A p \in Reordered(input) :
            LET other == Candles(interval, SortByTimestamp(p))
            IN  /\ WithoutOpenClose(other) = WithoutOpenClose(ohlc_candles)
                /\ SameTimestampSamePrice => other = ohlc_candles

\* ticks of one window presented latest first, no two with one timestamp
ReorderedInputWitness ==
    /\ last_call = "convert_to_ohlc"
    /\ Len(input) = 2
    /\ LexLess(input[2].timestamp, input[1].timestamp)
    /\ SameTimestampSamePrice
    /\ Len(ohlc_candles) = 1
    /\ ohlc_candles[1].open = input[2].last_price
    /\ ohlc_candles[1].close = input[1].last_price
    /\ ohlc_candles[1].open # ohlc_candles[1].close

\* C6: every candle has low <= min(open, close), high >= max(open, close)
\* and low <= high.
LowHighBracketOpenClose ==
    last_call = "convert_to_ohlc" =>
        \A j \in DOMAIN ohlc_candles :
            LET c == ohlc_candles[j]
            IN  /\ c.low <= c.open /\ c.low <= c.close
                /\ c.high >= c.open /\ c.high >= c.close
                /\ c.low <= c.high

\* a candle whose low is strictly below both open and close
LowBelowOpenCloseWitness ==
    /\ last_call = "convert_to_ohlc"
    /\ \E j \in DOMAIN ohlc_candles :
          /\ ohlc_candles[j].low < ohlc_candles[j].open
          /\ ohlc_candles[j].low < ohlc_candles[j].close
          /\ ohlc_candles[j].high = ohlc_candles[j].open

----------------------------------------------------------------------------
(* Properties of the verifier *)

Hist == args.historical_candles

Compared == 1..Min2(Len(Hist), Len(ohlc_candles))

\* the mismatch entries reported for the pair at position i (from 1)
EntriesFor(i) == {k \in DOMAIN ret.mismatches : ret.mismatches[k].index = i - 1}

SameOHLC(h, g) ==
    h.open = g.open /\ h.high = g.high /\ h.low = g.low /\ h.close = g.close

\* |h - g| / h * 100 <= tol in exact arithmetic, satisfied when h = 0
WithinTolerance(h, g, tol) == h = 0 \/ Abs(h - g) * 100 <= tol * h

ShouldMatch(i) ==
    /\ Hist[i].date = ohlc_candles[i].date
    /\ SameOHLC(Hist[i], ohlc_candles[i])
    /\ WithinTolerance(Hist[i].volume, ohlc_candles[i].volume, args.tolerance_pct)

\* C7: a compared pair is counted as a match iff the dates are equal, open,
\* high, low and close are equal and the volume difference is within the
\* tolerance percentage of the reference volume (always so when the
\* reference volume is 0); a pair whose dates differ is reported once, as a
\* timestamp mismatch only.
MatchIffDateOhlcVolume ==
    last_call = "verify_against_historical" =>
        /\ ret.matches = Cardinality({i \in Compared : ShouldMatch(i)})
        /\ \A i \in Compared :
              /\ (EntriesFor(i) = {}) <=> ShouldMatch(i)
              /\ Hist[i].date # ohlc_candles[i].date =>
                    \A k \in EntriesFor(i) :
                        ret.mismatches[k].details =
                           << <<"Timestamp mismatch", Hist[i].date, ohlc_candles[i].date>> >>

\* C8: with equal dates and prices and a reference volume r > 0, a generated
\* volume that differs from r by at most tolerance percent of r matches, and
\* one that differs by at least one unit more than that does not.
ToleranceBoundaryInclusive ==
    last_call = "verify_against_historical" =>
        \A i \in Compared :
            LET r == Hist[i].volume
                d == Abs(r - ohlc_candles[i].volume)
            IN  (/\ Hist[i].date = ohlc_candles[i].date
                 /\ SameOHLC(Hist[i], ohlc_candles[i])
                 /\ r > 0)
                => /\ d * 100 <= args.tolerance_pct * r => EntriesFor(i) = {}
                   /\ (d - 1) * 100 >= args.tolerance_pct * r => EntriesFor(i) # {}

DetailFrom(detail, h, g) ==
    \/ detail = <<"Timestamp mismatch", h.date, g.date>> /\ h.date # g.date
    \/ detail = <<"OHLC", <<h.open, h.high, h.low, h.close>>,
                          <<g.open, g.high, g.low, g.close>> >>
    \/ detail = <<"Volume", h.volume, g.volume>>

\* C9: the comparison is by position: exactly min(len(reference),
\* len(generated)) pairs are compared whether or not the lengths differ,
\* every mismatch entry for index i reports the i-th reference candle
\* against the i-th generated candle, and no entry has an index beyond the
\* shorter series.
ComparedByPosition ==
    last_call = "verify_against_historical" =>
        /\ ret.total_compared = Min2(Len(Hist), Len(ohlc_candles))
        /\ ret.matches + Len(ret.mismatches) = Min2(Len(Hist), Len(ohlc_candles))
        /\ \A k \in DOMAIN ret.mismatches :
              LET i == ret.mismatches[k].index + 1
              IN  /\ i \in Compared
                  /\ ret.mismatches[k].details # <<>>
                  /\ \A n \in DOMAIN ret.mismatches[k].details :
                        DetailFrom(ret.mismatches[k].details[n], Hist[i], ohlc_candles[i])
        /\ \A k, m \in DOMAIN ret.mismatches :
              k < m => ret.mismatches[k].index < ret.mismatches[m].index

\* a reference of two candles against three generated ones: the second
\* reference candle met the second generated candle, of another date, and
\* the third generated candle met nothing
LengthsDifferWitness ==
    /\ last_call = "verify_against_historical"
    /\ Len(Hist) = 2 /\ Len(ohlc_candles) = 3
    /\ Hist[2].date = ohlc_candles[3].date
    /\ ret.raised = "none"
    /\ ret.total_compared = 2
    /\ ret.matches = 1
    /\ Len(ret.mismatches) = 1
    /\ ret.mismatches[1].index = 1

\* C10: verification ends with a report and a verdict, without an error,
\* also when the reference or the generated series is empty.
VerifyNeverRaises ==
    last_call = "verify_against_historical" => ret.raised = "none"

----------------------------------------------------------------------------
(* create_output_json, and the converter fed with malformed tick files      *)

\* the token of the examples in main's help text
InstrumentTokens == {1510401}

\* candle['date'].replace('+05:30', ''): the string without its offset is a
\* timestamp string with no fractional part
WithoutOffset(date) == date \o <<0>>

\* dt.strftime('%Y-%m-%d %H:%M:%S'); the string "2025-09-DD HH:MM:SS" is the
\* tuple <<day, hour, minute, second>>
strftime_space(dt) == <<dt.day, dt.hour, dt.minute, dt.second>>

\* the value None
None == <<>>

OutputDataSwapped(iv, candles, instrument_token) ==
    IF candles = <<>>
    THEN [instrument_token |-> instrument_token, interval |-> iv,
          from_dt |-> None, to_dt |-> None, continuous |-> FALSE, oi |-> FALSE,
          data |-> <<>>, count |-> 0]
    ELSE [instrument_token |-> instrument_token, interval |-> iv,
          from_dt |-> strftime_space(fromisoformat(WithoutOffset(candles[Len(candles)].date))),
          to_dt |-> strftime_space(fromisoformat(WithoutOffset(candles[1].date))),
          continuous |-> FALSE, oi |-> FALSE,
          data |-> candles, count |-> Len(candles)]

\* the dictionary create_output_json returns for the stored series candles
OutputData(iv, candles, instrument_token) ==
    IF candles = <<>>
    THEN [instrument_token |-> instrument_token, interval |-> iv,
          from_dt |-> None, to_dt |-> None, continuous |-> FALSE, oi |-> FALSE,
          data |-> <<>>, count |-> 0]
    ELSE LET first_candle_dt == fromisoformat(WithoutOffset(candles[1].date))
             last_candle_dt == fromisoformat(WithoutOffset(candles[Len(candles)].date))
         IN  [instrument_token |-> instrument_token, interval |-> iv,
              from_dt |-> strftime_space(first_candle_dt),
              to_dt |-> strftime_space(last_candle_dt),
              continuous |-> FALSE, oi |-> FALSE,
              data |-> candles, count |-> Len(candles)]

create_output_json ==
    /\ \E instrument_token \in InstrumentTokens :
          /\ args' = [instrument_token |-> instrument_token]
          /\ ret' = OutputData(interval, ohlc_candles, instrument_token)
    /\ raised' = "none"
    /\ last_call' = "create_output_json"
    /\ UNCHANGED <<interval, ticks, ohlc_candles, input>>

NextFaulty == load_raw_file \/ convert_to_ohlc \/ create_output_json

SpecFaulty == InitVerify /\ [][NextFaulty]_vars

\* the file of the last load holds a malformed record
LoadedMalformed(file) == \E i \in DOMAIN file : file[i] \in MalformedRecords

\* C11: a load of a file with a malformed record (a required field missing,
\* or a timestamp that cannot be parsed) ends with an error, and the tick
\* list is then what it was before the load: no record of the file is in it.
LoadFailsWithoutPartialIngestion ==
    [][(last_call' = "load_tick_data" /\ LoadedMalformed(args'.tick_file))
          => (raised' # "none" /\ ticks' = ticks)]_vars

\* every tick has the fields and the timestamp the aggregation needs
Aggregable(tks) == \A i \in DOMAIN tks : WellTimed(tks[i]) /\ Priced(tks[i])

\* C13: convert_to_ohlc is all-or-nothing.  On ticks it can aggregate it
\* returns and stores the complete series; when a tick makes it fail, it ends
\* with an error, returns nothing, and the stored series is exactly the one
\* stored before the call.
ConvertIsAllOrNothing ==
    [][last_call' = "convert_to_ohlc"
          => IF Aggregable(ticks)
             THEN /\ raised' = "none"
                  /\ ret' = [candles |-> Candles(interval, ticks)]
                  /\ ohlc_candles' = Candles(interval, ticks)
             ELSE /\ raised' \in {"KeyError", "ValueError"}
                  /\ ret' = <<>>
                  /\ ohlc_candles' = ohlc_candles]_vars

\* a conversion failed on a tick without price in a later window, after
\* windows it could aggregate, and the series of an earlier conversion is
\* still stored
FailedConvertKeepsSeriesWitness ==
    /\ last_call = "convert_to_ohlc"
    /\ raised = "KeyError"
    /\ ohlc_candles # <<>>
    /\ \E i, j \in DOMAIN ticks :
          /\ Priced(ticks[i]) /\ WellTimed(ticks[i]) /\ WellTimed(ticks[j])
          /\ "last_price" \notin DOMAIN ticks[j]
          /\ LexLess(ticks[i].timestamp, ticks[j].timestamp)

\* a <= b on the strings
LexLeq(a, b) == a = b \/ LexLess(a, b)

\* C14: the envelope of create_output_json carries the stored series as
\* data, count is its length, from_dt and to_dt are the smallest and the
\* largest candle date (so from_dt <= to_dt); for the empty series count is
\* 0, data is empty and both bounds are None, and the bounds are None in
\* that case only.
EnvelopeCountAndBounds ==
    last_call = "create_output_json" =>
        /\ ret.data = ohlc_candles
        /\ ret.count = Len(ret.data)
        /\ ret.interval = interval
        /\ (ret.from_dt = None) <=> (ohlc_candles = <<>>)
        /\ (ret.to_dt = None) <=> (ohlc_candles = <<>>)
        /\ ohlc_candles = <<>> => ret.count = 0 /\ ret.data = <<>>
        /\ ohlc_candles # <<>> =>
              /\ \E i \in DOMAIN ret.data : ret.data[i].date = ret.from_dt
              /\ \E i \in DOMAIN ret.data : ret.data[i].date = ret.to_dt
              /\ \A i \in DOMAIN ret.data :
                    /\ LexLeq(ret.from_dt, ret.data[i].date)
                    /\ LexLeq(ret.data[i].date, ret.to_dt)
              /\ LexLeq(ret.from_dt, ret.to_dt)

\* an envelope over several candles, its bounds apart
EnvelopeOfSeveralCandlesWitness ==
    /\ last_call = "create_output_json"
    /\ ret.count >= 2
    /\ ret.from_dt # ret.to_dt
    /\ ret.from_dt # None

----------------------------------------------------------------------------
(* Construction from the caller's side: TickToOHLCConverter(interval)       *)

\* interval while the caller holds no converter
NoConverter == ""

\* the interval arguments a caller passes: the enumerated names and two others
IntervalArgs == IntervalNames \cup {"hour", "1minute"}

InitProcess ==
    /\ interval = NoConverter
    /\ ticks = <<>>
    /\ ohlc_candles = <<>>
    /\ input = <<>>
    /\ last_call = "start"
    /\ args = <<>>
    /\ ret = <<>>
    /\ raised = "none"

IntervalAcceptedAny(iv) == TRUE

\* not (interval not in self.INTERVALS)
IntervalAccepted(iv) == iv \in DOMAIN INTERVALS

\* converter = TickToOHLCConverter(interval=iv): __init__ raises before it
\* assigns anything, and the caller then keeps what it had
TickToOHLCConverter ==
    /\ \E iv \in IntervalArgs :
          /\ args' = [interval |-> iv]
          /\ IF IntervalAccepted(iv)
             THEN /\ interval' = iv
                  /\ ticks' = <<>>
                  /\ ohlc_candles' = <<>>
                  /\ input' = <<>>
                  /\ raised' = "none"
             ELSE /\ raised' = "ValueError"
                  /\ UNCHANGED <<interval, ticks, ohlc_candles, input>>
    /\ ret' = <<>>
    /\ last_call' = "__init__"

\* the methods are called on a converter
HasConverter == interval # NoConverter

NextConstruct ==
    \/ TickToOHLCConverter
    \/ HasConverter /\ load_tick_data

SpecConstruct == InitProcess /\ [][NextConstruct]_vars

\* the interval names the specification enumerates
EnumeratedIntervals ==
    {"minute", "3minute", "5minute", "10minute", "15minute", "30minute",
     "60minute", "day"}

\* C12: a construction with an interval outside the enumerated set ends with
\* ValueError and makes no converter, so no converter with an unrecognized
\* interval exists and no tick is loaded or processed without a converter; a
\* construction with an enumerated interval returns a converter of that
\* interval with empty ticks and empty candles.
ConstructorRejectsUnknownInterval ==
    /\ interval \in EnumeratedIntervals \cup {NoConverter}
    /\ interval = NoConverter => ticks = <<>> /\ ohlc_candles = <<>>
    /\ last_call = "__init__" =>
          IF args.interval \in EnumeratedIntervals
          THEN /\ raised = "none"
               /\ interval = args.interval
               /\ ticks = <<>>
               /\ ohlc_candles = <<>>
          ELSE /\ raised = "ValueError"
               /\ interval # args.interval

\* the first construction of a run was given "hour" and was rejected
RejectedConstructionWitness ==
    /\ last_call = "__init__"
    /\ args.interval = "hour"
    /\ raised = "ValueError"
    /\ interval = NoConverter

----------------------------------------------------------------------------
(* The command-line driver: one run of main()                               *)

\* args.verify: absent, or the reference file to verify against
VerifyOptions == {<<>>} \cup {<<h>> : h \in ReferenceSeries}

\* the status the interpreter exits with after main(): 1 when an exception
\* propagated out of it, 0 when it returned (main never calls sys.exit)
ExitStatus(exception) == IF exception = "none" THEN 0 ELSE 1

\* how a run ended: the exception that propagated out of main(), if any,
\* the converter's lists, and the verifier's report if it was called
Ended(exception, tks, stored, report) ==
    [raised |-> exception, ticks |-> tks, ohlc_candles |-> stored,
     verification |-> report]

\* main() after convert_to_ohlc: output, then the optional verification;
\* whatever the verdict, main returns
AfterConvert(tks, converted, verify, tolerance) ==
    IF converted.raised # "none" THEN Ended(converted.raised, tks, <<>>, <<>>)
    ELSE IF converted.candles = <<>> \/ verify = <<>>
         THEN Ended("none", tks, converted.candles, <<>>)
         ELSE LET report == Verification(verify[1], converted.candles, tolerance)
              IN  Ended(report.raised, tks, converted.candles, <<report>>)

\* main() after load_tick_data: it returns at once when no tick was loaded
AfterLoad(iv, loaded, verify, tolerance) ==
    IF loaded.raised # "none" THEN Ended(loaded.raised, loaded.ticks, <<>>, <<>>)
    ELSE IF Len(loaded.ticks) = 0 THEN Ended("none", loaded.ticks, <<>>, <<>>)
         ELSE AfterConvert(loaded.ticks, ConvertOutcome(iv, loaded.ticks),
                           verify, tolerance)

\* the body of main() from the construction of the converter on, for the
\* parsed --interval; an exception of a step ends the run there
RunMain(iv, tick_file, verify, tolerance) ==
    AfterLoad(iv, LoadTicks(<<>>, tick_file), verify, tolerance)

\* the state a run leaves behind
Exit(run) ==
    /\ ticks' = run.ticks
    /\ ohlc_candles' = run.ohlc_candles
    /\ raised' = run.raised
    /\ ret' = [exit_status |-> ExitStatus(run.raised),
               verification |-> run.verification]

\* the interpreter runs main() once (if __name__ == '__main__')
main ==
    /\ last_call # "main"
    /\ \E tick_file \in RawFiles(MaxTicks), verify \in VerifyOptions,
          tolerance \in Tolerances :
          /\ \E run \in {RunMain(interval, tick_file, verify, tolerance)} :
                Exit(run)
          /\ input' = tick_file
          /\ args' = [tick_file |-> tick_file, verify |-> verify,
                      tolerance |-> tolerance]
    /\ last_call' = "main"
    /\ UNCHANGED interval

NextMain == main

SpecMain == InitVerify /\ [][NextMain]_vars

\* the run verified, and the verifier returned a negative verdict
NegativeVerdict ==
    /\ ret.verification # <<>>
    /\ ret.verification[1].raised = "none"
    /\ ~ret.verification[1].verdict

\* C15: a run of the driver exits non-zero when loading or parsing the tick
\* file failed and when the requested verification returned a negative
\* verdict; it exits 0 only when no step failed and the verification, if it
\* ran, returned a positive verdict.
ExitStatusReflectsOutcome ==
    last_call = "main" =>
        /\ raised # "none" => ret.exit_status # 0
        /\ NegativeVerdict => ret.exit_status # 0
        /\ ret.exit_status = 0 => raised = "none" /\ ~NegativeVerdict

----------------------------------------------------------------------------
(* The verifier's accounting and the tick list across calls                 *)

\* C16: every compared pair has exactly one outcome, a match or one mismatch
\* entry, and the entries are in increasing index, so matches + number of
\* entries = min(len(reference), len(generated)); the call returns a verdict,
\* true iff the mismatch list is empty, so that series of different lengths
\* whose compared pairs all match are verified with verdict true.
VerdictIffNoMismatch ==
    last_call = "verify_against_historical" =>
        /\ \A i \in Compared : Cardinality(EntriesFor(i)) <= 1
        /\ \A k \in DOMAIN ret.mismatches : ret.mismatches[k].index + 1 \in Compared
        /\ \A k, m \in DOMAIN ret.mismatches :
              k < m => ret.mismatches[k].index < ret.mismatches[m].index
        /\ ret.matches = Cardinality({i \in Compared : EntriesFor(i) = {}})
        /\ ret.matches + Len(ret.mismatches) = Min2(Len(Hist), Len(ohlc_candles))
        /\ raised = "none"
        /\ ret.verdict <=> (ret.mismatches = <<>>)

\* how often record r occurs in the list s
Occurrences(s, r) == Cardinality({i \in DOMAIN s : s[i] = r})

\* C17: the tick list holds every record of every file loaded so far, as
\* often as it was loaded, in non-decreasing timestamp order; a load returns
\* the number of ticks held after it; convert_to_ohlc and
\* verify_against_historical leave the tick list as it is.
LoadsAccumulateInOrder ==
    /\ [](/\ Len(ticks) = Len(input)
          /\ \A r \in TickRecords : Occurrences(ticks, r) = Occurrences(input, r)
          /\ \A i, j \in DOMAIN ticks :
                i < j => ~LexLess(ticks[j].timestamp, ticks[i].timestamp)
          /\ last_call = "load_tick_data" => raised = "none" /\ ret.count = Len(input))
    /\ [][last_call' \in {"convert_to_ohlc", "verify_against_historical"}
             => ticks' = ticks]_vars

\* the same one-record file was loaded twice: the second load returned 2 and
\* the record is held twice
SameFileTwiceWitness ==
    /\ last_call = "load_tick_data"
    /\ Len(args.tick_file) = 1
    /\ input = args.tick_file \o args.tick_file
    /\ ret.count = 2
    /\ ticks = input

====
